---- MODULE Spec2Model ----
(***************************************************************************)
(* Model of the harmonic-analysis pipeline of backend/app/main.py and of   *)
(* the key matcher of backend/app/utils.py.                                *)
(*                                                                         *)
(* Units.  Request times (start, end) are integers in milliseconds.  To    *)
(* compare them exactly with duration = len(f) / sr, every time inside the *)
(* pipeline is held "scaled": seconds * 1000 * sr, so start scaled is      *)
(* start * sr and the duration scaled is nsamples * 1000.  Arithmetic is   *)
(* exact (the float rounding of the Python code is not modelled).          *)
(* Confidences are integers in thousandths; a region confidence is in      *)
(* units of 1/2000 so that the mean of two thousandths is an integer.      *)
(***************************************************************************)
EXTENDS Integers, Sequences, FiniteSets, TLC

\* ------------------------------------------------------------------ constants

MIN_SAMPLES_FOR_CQT == 4096

LOCAL_ANALYSIS_STREAMING_THRESHOLD_S == 60

\* chunk_size = sr * 5
CHUNK_SECONDS == 5

\* hop length of librosa.feature.chroma_cqt (its default)
HOP_LENGTH == 512

\* milliseconds per second: the unit of the request's start and end
MS == 1000

\* ------------------------------------------------------------------ bounds

\* the longest file has MaxChunks full 5-second chunks and a tail
MaxChunks == 13

\* ------------------------------------------------------------------ inputs

SampleRates == {8000, 22050}

\* length of the file's last, partial chunk
TailLengths == {0, 1, MIN_SAMPLES_FOR_CQT - 1, MIN_SAMPLES_FOR_CQT,
                MIN_SAMPLES_FOR_CQT + 1}

FileLengths(rate) ==
    {q * (rate * CHUNK_SECONDS) + r : q \in 0..MaxChunks, r \in TailLengths}

\* the 'start' form field, milliseconds
StartTimes == {-1000, 0, 2000, 70000}

\* the 'end' form field, milliseconds, when given
EndTimes == {0, 185, 186, 2000, 60000, 60100, 63000, 80000}

\* what raises an exception that is not one of the pipeline's ValueErrors:
\* "upload": audio.read() or temp_audio_file.write(content);
\* "decoder": sf.SoundFile(filepath) on a file libsndfile cannot decode;
\* "numeric": librosa.feature.chroma_cqt on the first chunk of the file
Faults == {"none", "upload", "decoder", "numeric"}

VARIABLES
    pc,                  \* position of the request in the endpoint
    start, end, endGiven,\* form fields; endGiven = FALSE is end = None
    sr, nsamples,        \* the uploaded file: f.samplerate, len(f)
    fault,               \* what fails outside the pipeline's own checks, if anything
    status, err,         \* HTTP status of the response (0: none yet), error kind
    body,                \* what the endpoint returned or raised: <<"none">>,
                         \* <<"result">>, <<"detail", message>>, <<"internal", e>>
    temp_audio_filepath, \* the endpoint's local variable: "none" (None) | "set"
    temp_file_on_disk,   \* the file NamedTemporaryFile created is on disk
    performCalled,       \* _perform_analysis was entered
    gpos,                \* file position of the global pass's block iterator
    gblocks,             \* blocks the global pass has read
    gcalls,              \* extractor calls of the global pass
    gfed,                \* length of the last buffer the global pass gave the extractor
    glast,               \* mono length of the last block of the global pass
    total_frames,
    segment_start_sec, segment_end_sec,   \* scaled times
    start_sample, num_samples_to_read,
    lpath,               \* "none" | "direct" | "stream"
    lopens,              \* times the local pass opened the audio file
    lreads,              \* read calls of the local pass
    lpos,                \* file position of the local pass's handle
    lreq,                \* the sample count the last local read asked for
    lmaxreq,             \* the largest sample count one local read asked for
    lcalls,              \* extractor calls of the local pass
    lfedmin,             \* the shortest buffer the local pass gave the extractor (0: none)
    samples_processed,
    local_frames,        \* frames of local_chroma
    cpc,                 \* step 3 of _perform_analysis: "inputs" | "classified"
    global_key_info,     \* result of step 1: key_signature, confidence
    local_key_info,      \* result of step 2: key_signature, confidence
    local_cadence_info,  \* detected, strength
    region_info,         \* type, confidence, borrowed
    kpc,                 \* the key matcher: "build" | "estimated" | "rotated"
    chroma_vector,       \* the 12-bin input of guess_mode
    kshift,              \* semitones the input was rotated by
    kbest,               \* guess_mode(chroma_vector)
    krotated,            \* guess_mode(chroma_vector rotated by kshift)
    kties,               \* candidates whose score equals the best score
    kunit,               \* the unit of the input's entries: "half" | "tiny"
    hpc,                 \* suppress_harmonics: "build" | "suppressed"
    hvec,                \* its 12-bin input
    hthreshold,          \* its threshold
    hresult,             \* the vector it returned
    weighted_chroma_sum, \* the global pass's running sum, 12 bins
    chunk_chromas,       \* history: the chroma matrices the extractor returned
    global_avg_chroma    \* weighted_chroma_sum / total_frames, as fractions

pipelineVars == <<pc, start, end, endGiven, sr, nsamples, fault, status, err,
          body, temp_audio_filepath, temp_file_on_disk, performCalled, gpos, gblocks, gcalls, gfed,
          glast, total_frames, segment_start_sec, segment_end_sec,
          start_sample, num_samples_to_read, lpath, lopens, lreads, lpos,
          lreq, lmaxreq,
          lcalls, lfedmin, samples_processed, local_frames>>

classifierVars == <<cpc, global_key_info, local_key_info, local_cadence_info,
                    region_info>>

keyVars == <<kpc, chroma_vector, kshift, kbest, krotated, kties, kunit>>

harmVars == <<hpc, hvec, hthreshold, hresult>>

aggVars == <<weighted_chroma_sum, chunk_chromas, global_avg_chroma>>

vars == <<pipelineVars, classifierVars, keyVars, harmVars, aggVars>>

inputVars == <<start, end, endGiven, sr, nsamples, fault>>
globalVars == <<gpos, gblocks, gcalls, gfed, glast, total_frames>>
segmentVars == <<segment_start_sec, segment_end_sec, start_sample,
                 num_samples_to_read, lpath>>
localVars == <<lopens, lreads, lpos, lreq, lmaxreq, lcalls, lfedmin,
               samples_processed, local_frames>>

\* ------------------------------------------------------------------ helpers

Min(a, b) == IF a < b THEN a ELSE b
Max(a, b) == IF a > b THEN a ELSE b

\* a request time in milliseconds, scaled
Scaled(t_ms, rate) == t_ms * rate

\* duration = len(f) / sr, scaled
Duration(n) == n * MS

\* librosa.time_to_samples: (times * sr).astype(int), truncating towards zero
time_to_samples(t) == IF t >= 0 THEN t \div MS ELSE -((-t) \div MS)

\* frames of librosa.feature.chroma_cqt(y, sr) for a buffer of n samples
chroma_cqt_frames(n) == 1 + n \div HOP_LENGTH

\* np.pad(y_chunk, (0, MIN_SAMPLES_FOR_CQT - chunk_len)) when chunk_len is short
PadChunk(chunk_len) ==
    IF chunk_len < MIN_SAMPLES_FOR_CQT
    THEN chunk_len + (MIN_SAMPLES_FOR_CQT - chunk_len)
    ELSE chunk_len

chunk_size == sr * CHUNK_SECONDS

\* the errors the pipeline raises as ValueError
ValueErrors == {"TooShortGlobal", "EmptySegment", "TooShortLocal",
                "CouldNotProcess"}

\* ------------------------------------------------------------------ endpoint

\* no classification and no key matching is under way
ClassifierIdle ==
    /\ cpc = "idle"
    /\ global_key_info = <<>> /\ local_key_info = <<>>
    /\ local_cadence_info = <<>> /\ region_info = <<>>

KeyIdle ==
    /\ kpc = "idle"
    /\ chroma_vector = <<>> /\ kshift = 0
    /\ kbest = <<>> /\ krotated = <<>> /\ kties = 0
    /\ kunit = "half"

\* suppress_harmonics is not being applied
HarmIdle ==
    /\ hpc = "idle"
    /\ hvec = <<>> /\ hthreshold = 0 /\ hresult = <<>>

\* the values of the chroma matrices are not followed
AggIdle ==
    /\ weighted_chroma_sum = <<>>
    /\ chunk_chromas = <<>>
    /\ global_avg_chroma = <<>>

Init ==
    /\ ClassifierIdle
    /\ KeyIdle
    /\ HarmIdle
    /\ AggIdle
    /\ pc = "validate"
    /\ sr \in SampleRates
    /\ nsamples \in FileLengths(sr)
    /\ start \in StartTimes
    /\ endGiven \in BOOLEAN
    /\ end \in IF endGiven THEN EndTimes ELSE {0}
    /\ fault \in Faults
    /\ status = 0
    /\ err = "none"
    /\ body = <<"none">>
    /\ temp_audio_filepath = "none"
    /\ temp_file_on_disk = FALSE
    /\ performCalled = FALSE
    /\ gpos = 0 /\ gblocks = 0 /\ gcalls = 0 /\ gfed = 0 /\ glast = 0
    /\ total_frames = 0
    /\ segment_start_sec = 0 /\ segment_end_sec = 0
    /\ start_sample = 0 /\ num_samples_to_read = 0
    /\ lpath = "none"
    /\ lopens = 0 /\ lreads = 0 /\ lmaxreq = 0 /\ lcalls = 0 /\ lfedmin = 0
    /\ lpos = 0 /\ lreq = 0
    /\ samples_processed = 0
    /\ local_frames = 0

\* mutant of EndBeforeStart: the comparison reversed
EndBeforeStartReversed(e_given, e, s) == e_given /\ s < e

\* the check the endpoint makes before the try block
EndBeforeStart(e_given, e, s) == e_given /\ e < s

\* analyze_mode_endpoint: if end is not None and end < start: raise 400
Validate ==
    /\ pc = "validate"
    /\ IF EndBeforeStart(endGiven, end, start)
       THEN /\ status' = 400
            /\ err' = "EndBeforeStart"
            /\ body' = <<"detail", "EndBeforeStart">>
            /\ pc' = "done"
       ELSE /\ pc' = "upload"
            /\ UNCHANGED <<status, body, err>>
    /\ UNCHANGED <<classifierVars, keyVars, harmVars, aggVars, inputVars, temp_audio_filepath, temp_file_on_disk, performCalled, globalVars,
                   segmentVars, localVars>>

\* with NamedTemporaryFile(delete=False, ...) as temp_audio_file: the file is
\* created; content = await audio.read(); temp_audio_file.write(content);
\* temp_audio_filepath = temp_audio_file.name.  When the read or the write
\* raises, the with block closes the file and leaves it (delete=False), and
\* the assignment is not reached.
SaveUpload ==
    /\ pc = "upload"
    /\ temp_file_on_disk' = TRUE
    /\ IF fault = "upload"
       THEN /\ err' = "UploadError"
            /\ pc' = "except"
            /\ UNCHANGED temp_audio_filepath
       ELSE /\ temp_audio_filepath' = "set"
            /\ pc' = "perform"
            /\ UNCHANGED err
    /\ UNCHANGED <<classifierVars, keyVars, harmVars, aggVars, inputVars, status, body,
                   performCalled, globalVars, segmentVars, localVars>>

\* _perform_analysis opens the file for sr and duration, then starts step 1
OpenAudio ==
    /\ pc = "perform"
    /\ performCalled' = TRUE
    /\ IF fault = "decoder"
       THEN err' = "OpenError" /\ pc' = "except"
       ELSE pc' = "global" /\ UNCHANGED err
    /\ UNCHANGED <<classifierVars, keyVars, harmVars, aggVars, inputVars, status, body,
                   temp_audio_filepath, temp_file_on_disk, globalVars,
                   segmentVars, localVars>>

\* ------------------------------------------------------------------ global pass

\* mutant of GlobalChunkFed: a short chunk is skipped, not padded
GlobalChunkFedSkipShort(chunk_len) ==
    IF chunk_len >= MIN_SAMPLES_FOR_CQT THEN chunk_len ELSE 0

\* length of the buffer one block of the global pass gives the extractor
\* (0: the extractor is not called): if chunk_len > 0, pad when short
GlobalChunkFed(chunk_len) ==
    IF chunk_len > 0 THEN PadChunk(chunk_len) ELSE 0

\* one iteration of: for block in f.blocks(blocksize=chunk_size), as far as
\* the lengths and the counts go
GlobalChunkStep ==
    /\ pc = "global"
    /\ gpos < nsamples
    /\ LET chunk_len == Min(chunk_size, nsamples - gpos)
           fed == GlobalChunkFed(chunk_len)
       IN /\ gpos' = gpos + chunk_len
          /\ gblocks' = gblocks + 1
          /\ glast' = chunk_len
          /\ gfed' = fed
          /\ gcalls' = IF fed > 0 THEN gcalls + 1 ELSE gcalls
          /\ IF fed > 0 /\ fault = "numeric"
             THEN /\ err' = "NumericError"
                  /\ pc' = "except"
                  /\ UNCHANGED total_frames
             ELSE /\ total_frames' = IF fed > 0
                                     THEN total_frames + chroma_cqt_frames(fed)
                                     ELSE total_frames
                  /\ UNCHANGED <<pc, err>>
    /\ UNCHANGED <<inputVars, status, body, temp_audio_filepath,
                   temp_file_on_disk, performCalled, segmentVars, localVars>>

\* the iteration, the values of the chunk's chroma matrix left aside
GlobalChunk ==
    /\ GlobalChunkStep
    /\ UNCHANGED <<classifierVars, keyVars, harmVars, aggVars>>

\* the block iterator is exhausted: if total_frames == 0: raise ValueError
GlobalFinishStep ==
    /\ pc = "global"
    /\ gpos >= nsamples
    /\ IF total_frames = 0
       THEN /\ err' = "TooShortGlobal"
            /\ pc' = "except"
       ELSE /\ pc' = "local"
            /\ UNCHANGED err
    /\ UNCHANGED <<inputVars, status, body, temp_audio_filepath,
                   temp_file_on_disk, performCalled, globalVars, segmentVars,
                   localVars>>

\* the end of the loop, the average left aside
GlobalFinish ==
    /\ GlobalFinishStep
    /\ UNCHANGED <<classifierVars, keyVars, harmVars, aggVars>>

\* ------------------------------------------------------------------ local pass

\* segment_end_sec = end_time if end_time is not None and end_time <= duration
\*                   else duration          (scaled times)
SegmentEnd(e_given, e, rate, n) ==
    IF e_given /\ Scaled(e, rate) <= Duration(n)
    THEN Scaled(e, rate)
    ELSE Duration(n)

\* mutant of UseStreaming: the comparison reversed
UseStreamingReversed(seg_start, seg_end, rate) ==
    seg_end - seg_start < LOCAL_ANALYSIS_STREAMING_THRESHOLD_S * MS * rate

\* segment_duration_sec > LOCAL_ANALYSIS_STREAMING_THRESHOLD_S
UseStreaming(seg_start, seg_end, rate) ==
    seg_end - seg_start > LOCAL_ANALYSIS_STREAMING_THRESHOLD_S * MS * rate

\* f.read(count) at file position pos returns the samples that are there
ReadLen(pos, count) == Max(0, Min(count, nsamples - pos))

\* mutant of IsEmptySegment: a segment of zero samples is let through
IsEmptySegmentStrict(num) == num < 0

\* if num_samples_to_read <= 0: raise ValueError
IsEmptySegment(num) == num <= 0

\* _run_local_analysis up to the choice of the path
LocalResolve ==
    /\ pc = "local"
    /\ LET seg_start == Scaled(start, sr)
           seg_end == SegmentEnd(endGiven, end, sr, nsamples)
           s_sample == time_to_samples(seg_start)
           e_sample == time_to_samples(seg_end)
           num == e_sample - s_sample
       IN /\ segment_start_sec' = seg_start
          /\ segment_end_sec' = seg_end
          /\ start_sample' = s_sample
          /\ num_samples_to_read' = num
          /\ IF IsEmptySegment(num)
             THEN /\ err' = "EmptySegment"
                  /\ pc' = "except"
                  /\ UNCHANGED lpath
             ELSE /\ UNCHANGED err
                  /\ IF UseStreaming(seg_start, seg_end, sr)
                     THEN lpath' = "stream" /\ pc' = "lstreamOpen"
                     ELSE lpath' = "direct" /\ pc' = "ldirect"
    /\ UNCHANGED <<classifierVars, keyVars, harmVars, aggVars, inputVars, status, body, temp_audio_filepath, temp_file_on_disk, performCalled,
                   globalVars, localVars>>

\* f.seek(start_sample) fails in the decoder for a position before the file
SeekFails(pos) == pos < 0

\* the direct path: one seek, one read of the whole segment, one extraction
LocalDirect ==
    /\ pc = "ldirect"
    /\ lopens' = lopens + 1
    /\ IF SeekFails(start_sample)
       THEN /\ err' = "DecoderError"
            /\ pc' = "except"
            /\ UNCHANGED <<lreads, lpos, lreq, lmaxreq, lcalls, lfedmin,
                           samples_processed, local_frames>>
       ELSE LET segment_len == ReadLen(start_sample, num_samples_to_read)
            IN /\ lreads' = lreads + 1
               /\ lpos' = start_sample + segment_len
               /\ lreq' = num_samples_to_read
               /\ lmaxreq' = Max(lmaxreq, num_samples_to_read)
               /\ samples_processed' = segment_len
               /\ IF segment_len < MIN_SAMPLES_FOR_CQT
                  THEN /\ err' = "TooShortLocal"
                       /\ pc' = "except"
                       /\ UNCHANGED <<lcalls, lfedmin, local_frames>>
                  ELSE /\ lcalls' = lcalls + 1
                       /\ lfedmin' = segment_len
                       /\ local_frames' = chroma_cqt_frames(segment_len)
                       /\ pc' = "classify"
                       /\ UNCHANGED err
    /\ UNCHANGED <<classifierVars, keyVars, harmVars, aggVars, inputVars, status, body, temp_audio_filepath, temp_file_on_disk, performCalled,
                   globalVars, segmentVars>>

\* the streaming path: with sf.SoundFile(...) as f: f.seek(start_sample)
LocalStreamOpen ==
    /\ pc = "lstreamOpen"
    /\ lopens' = lopens + 1
    /\ IF SeekFails(start_sample)
       THEN err' = "DecoderError" /\ pc' = "except" /\ UNCHANGED lpos
       ELSE pc' = "lstream" /\ lpos' = start_sample /\ UNCHANGED err
    /\ UNCHANGED <<classifierVars, keyVars, harmVars, aggVars, inputVars, status, body, temp_audio_filepath, temp_file_on_disk, performCalled,
                   globalVars, segmentVars, lreads, lreq, lmaxreq, lcalls,
                   lfedmin, samples_processed, local_frames>>

\* mutant of LocalChunkFed: a short chunk goes to the extractor unpadded
LocalChunkFedUnpadded(chunk_len) == chunk_len

\* length of the buffer one chunk of the local stream gives the extractor
LocalChunkFed(chunk_len) ==
    IF chunk_len > 0 THEN PadChunk(chunk_len) ELSE 0

\* mutant of SamplesThisChunk: a whole chunk is asked for every time
SamplesThisChunkWhole(size, num, processed) == size

\* samples_this_chunk = min(chunk_size, num_samples_to_read - samples_processed)
SamplesThisChunk(size, num, processed) == Min(size, num - processed)

\* one iteration of: while samples_processed < num_samples_to_read
LocalStreamChunk ==
    /\ pc = "lstream"
    /\ samples_processed < num_samples_to_read
    /\ LET samples_this_chunk ==
               SamplesThisChunk(chunk_size, num_samples_to_read,
                                samples_processed)
           block_len == ReadLen(lpos, samples_this_chunk)
           fed == LocalChunkFed(block_len)
       IN /\ lreads' = lreads + 1
          /\ lreq' = samples_this_chunk
          /\ lpos' = lpos + block_len
          /\ lmaxreq' = Max(lmaxreq, samples_this_chunk)
          /\ IF block_len = 0
             THEN /\ pc' = "lstreamBreak"
                  /\ UNCHANGED <<samples_processed, lcalls, lfedmin,
                                 local_frames>>
             ELSE /\ pc' = "lstream"
                  /\ samples_processed' = samples_processed + block_len
                  /\ lcalls' = IF fed > 0 THEN lcalls + 1 ELSE lcalls
                  /\ lfedmin' = IF fed > 0 /\ (lfedmin = 0 \/ fed < lfedmin)
                                THEN fed ELSE lfedmin
                  /\ local_frames' = IF fed > 0
                                     THEN local_frames + chroma_cqt_frames(fed)
                                     ELSE local_frames
    /\ UNCHANGED <<classifierVars, keyVars, harmVars, aggVars, inputVars, status, body, err, temp_audio_filepath, temp_file_on_disk, performCalled,
                   globalVars, segmentVars, lopens>>

\* the loop is left: if not local_chroma_list: raise ValueError; concatenate
LocalStreamFinish ==
    /\ pc \in {"lstream", "lstreamBreak"}
    /\ pc = "lstream" => samples_processed >= num_samples_to_read
    /\ IF lcalls = 0
       THEN err' = "CouldNotProcess" /\ pc' = "except"
       ELSE pc' = "classify" /\ UNCHANGED err
    /\ UNCHANGED <<classifierVars, keyVars, harmVars, aggVars, inputVars, status, body, temp_audio_filepath, temp_file_on_disk, performCalled,
                   globalVars, segmentVars, localVars>>

\* steps 3 to 5 of _perform_analysis: classify, assemble, return the response
ClassifyAndRespond ==
    /\ pc = "classify"
    /\ status' = 200
    /\ body' = <<"result">>
    /\ pc' = "finally"
    /\ UNCHANGED <<classifierVars, keyVars, harmVars, aggVars, inputVars, err, temp_audio_filepath, temp_file_on_disk, performCalled,
                   globalVars, segmentVars, localVars>>

\* mutant of StatusOf: every exception is answered as an internal error
StatusOfAlwaysInternal(e) == 500

\* except ValueError: 400; except Exception: 500
StatusOf(e) == IF e \in ValueErrors THEN 400 ELSE 500

\* detail=str(e) for a ValueError; detail=f"An internal error occurred: {e}"
DetailOf(e) ==
    IF e \in ValueErrors THEN <<"detail", e>> ELSE <<"internal", e>>

HandleException ==
    /\ pc = "except"
    /\ status' = StatusOf(err)
    /\ body' = DetailOf(err)
    /\ pc' = "finally"
    /\ UNCHANGED <<classifierVars, keyVars, harmVars, aggVars, inputVars, err, temp_audio_filepath, temp_file_on_disk, performCalled,
                   globalVars, segmentVars, localVars>>

\* if temp_audio_filepath and os.path.exists(temp_audio_filepath)
RemovesTempFile(path, on_disk) == path # "none" /\ on_disk

\* finally: os.remove(temp_audio_filepath) under that condition
Finally ==
    /\ pc = "finally"
    /\ temp_file_on_disk' = IF RemovesTempFile(temp_audio_filepath,
                                               temp_file_on_disk)
                            THEN FALSE ELSE temp_file_on_disk
    /\ pc' = "done"
    /\ UNCHANGED <<classifierVars, keyVars, harmVars, aggVars, inputVars, status, body, err, temp_audio_filepath, performCalled, globalVars,
                   segmentVars, localVars>>

Next ==
    \/ Validate
    \/ SaveUpload
    \/ OpenAudio
    \/ GlobalChunk
    \/ GlobalFinish
    \/ LocalResolve
    \/ LocalDirect
    \/ LocalStreamOpen
    \/ LocalStreamChunk
    \/ LocalStreamFinish
    \/ ClassifyAndRespond
    \/ HandleException
    \/ Finally

Spec == Init /\ [][Next]_vars

\* ------------------------------------------------------------------ claims

\* the global pass has consumed the whole file (finished or failed)
GlobalOver ==
    performCalled /\ pc # "global" /\ err \notin {"OpenError", "NumericError"}

\* _run_local_analysis has computed the segment's sample range
LocalResolved == GlobalOver /\ pc # "local" /\ err # "TooShortGlobal"

\* the local pass has chosen a path and left it
LocalPassOver ==
    lpath # "none" /\ pc \in {"classify", "except", "finally", "done"}

\* C1: in the global pass every block read is given to the extractor, a block
\* of fewer than MIN_SAMPLES_FOR_CQT mono samples zero-padded to exactly that
\* length; so a file with at least one sample ends the pass with
\* total_frames > 0 and without the too-short failure.
C1_ShortChunkPaddedNotSkipped ==
    /\ gcalls = gblocks
    /\ gblocks > 0 =>
         /\ glast > 0
         /\ glast < MIN_SAMPLES_FOR_CQT => gfed = MIN_SAMPLES_FOR_CQT
         /\ glast >= MIN_SAMPLES_FOR_CQT => gfed = glast
    /\ (GlobalOver /\ nsamples > 0) =>
         total_frames > 0 /\ err # "TooShortGlobal"

\* C1 witness: a file of exactly M - 1 samples has finished the global pass
C1_Witness ==
    /\ nsamples = MIN_SAMPLES_FOR_CQT - 1
    /\ pc = "local"
    /\ gfed = MIN_SAMPLES_FOR_CQT
    /\ total_frames > 0

\* C2: a request whose end is given and earlier than start ends with status
\* 400 and nothing else happens: no temporary file, no _perform_analysis, no
\* read of the audio by the global or the local pass.
C2_EndBeforeStartRejectedFirst ==
    (endGiven /\ end < start) =>
        /\ pc \in {"validate", "done"}
        /\ pc = "done" => status = 400
        /\ temp_audio_filepath = "none"
        /\ ~temp_file_on_disk
        /\ ~performCalled
        /\ gblocks = 0 /\ gcalls = 0
        /\ lopens = 0 /\ lreads = 0 /\ lcalls = 0

\* C2 witness: such a request was answered
C2_Witness ==
    endGiven /\ end < start /\ pc = "done" /\ status = 400

\* C3: once the global pass has read audio, the segment bounds the local
\* pass will use satisfy segment_end >= segment_start.
C3_SegmentOrderedBeforeGlobal ==
    gblocks > 0 =>
        SegmentEnd(endGiven, end, sr, nsamples) >= Scaled(start, sr)

\* C6 as stated: after the local pass of a segment with a positive sample
\* count (and no failure of the decoder), a segment not above the threshold
\* was read by one seek-and-read and extracted exactly once, and one above
\* it was streamed in reads of at most one chunk.
C6_HybridExtractsExactlyOnce ==
    (LocalPassOver /\ num_samples_to_read > 0 /\ err # "DecoderError") =>
        IF segment_end_sec - segment_start_sec
               <= LOCAL_ANALYSIS_STREAMING_THRESHOLD_S * MS * sr
        THEN lpath = "direct" /\ lreads = 1 /\ lcalls = 1
        ELSE lpath = "stream" /\ lmaxreq <= chunk_size

\* C6 amended: for a segment with a positive sample count (and no failure of
\* the decoder), exactly one path runs; not above the threshold, one open
\* and one read of the whole segment, and the extractor runs once when the
\* read gave at least M samples and not at all otherwise; above the
\* threshold, the chunked loop, no read asking for more than one chunk.
C6_HybridPolicy ==
    /\ lpath = "stream" => lmaxreq <= chunk_size
    /\ lopens <= 1
    /\ (LocalPassOver /\ num_samples_to_read > 0 /\ err # "DecoderError") =>
        IF segment_end_sec - segment_start_sec
               <= LOCAL_ANALYSIS_STREAMING_THRESHOLD_S * MS * sr
        THEN /\ lpath = "direct"
             /\ lopens = 1 /\ lreads = 1
             /\ lmaxreq = num_samples_to_read
             /\ samples_processed = num_samples_to_read
             /\ lcalls = IF num_samples_to_read >= MIN_SAMPLES_FOR_CQT
                         THEN 1 ELSE 0
        ELSE /\ lpath = "stream"
             /\ lopens = 1 /\ lreads >= 1

\* C6 witness: a segment of exactly the threshold's length was read directly
\* and extracted once
C6_Witness ==
    /\ lpath = "direct" /\ pc = "classify"
    /\ segment_end_sec - segment_start_sec
           = LOCAL_ANALYSIS_STREAMING_THRESHOLD_S * MS * sr
    /\ lreads = 1 /\ lcalls = 1
    /\ samples_processed = num_samples_to_read

\* C7: the too-short error is raised exactly when the global pass ended with
\* zero frames or the direct read gave fewer than M mono samples; the
\* streaming path pads a short chunk and never raises it.
C7_TooShortExactly ==
    /\ (err = "TooShortGlobal") <=> (GlobalOver /\ total_frames = 0)
    /\ (err = "TooShortLocal") <=>
           (lpath = "direct" /\ lreads = 1
            /\ samples_processed < MIN_SAMPLES_FOR_CQT)
    /\ lpath = "stream" =>
           /\ err \notin {"TooShortGlobal", "TooShortLocal"}
           /\ lcalls > 0 => lfedmin >= MIN_SAMPLES_FOR_CQT
    /\ (lpath = "direct" /\ lcalls > 0) => lfedmin >= MIN_SAMPLES_FOR_CQT

\* C7 witness: a streamed segment whose last chunk was short has been read
\* to its end, the short chunk padded
C7_Witness ==
    /\ lpath = "stream" /\ pc = "classify"
    /\ num_samples_to_read % chunk_size # 0
    /\ num_samples_to_read % chunk_size < MIN_SAMPLES_FOR_CQT
    /\ lfedmin = MIN_SAMPLES_FOR_CQT
    /\ err = "none"

\* C8: the local pass fails as an empty segment exactly when
\* end_sample - start_sample <= 0, and then it has not opened or read the
\* audio, run the extractor, or reached the classification.
C8_EmptySegmentExactly ==
    /\ (err = "EmptySegment") <=> (LocalResolved /\ num_samples_to_read <= 0)
    /\ LocalResolved =>
           num_samples_to_read =
               time_to_samples(SegmentEnd(endGiven, end, sr, nsamples))
               - time_to_samples(Scaled(start, sr))
    /\ err = "EmptySegment" =>
           /\ lpath = "none"
           /\ lopens = 0 /\ lreads = 0 /\ lcalls = 0
           /\ pc \in {"except", "finally", "done"}
           /\ status \in {0, 400}

\* C8 witness: start equal to the resolved end
C8_Witness ==
    /\ endGiven /\ end = start
    /\ err = "EmptySegment" /\ pc = "done" /\ status = 400

\* ------------------------------------------------------------------ region classifier

\* no request is under way
PipelineIdle ==
    /\ pc = "idle"
    /\ start = 0 /\ end = 0 /\ endGiven = FALSE /\ sr = 0 /\ nsamples = 0
    /\ fault = "none"
    /\ status = 0 /\ err = "none" /\ body = <<"none">>
    /\ temp_audio_filepath = "none" /\ temp_file_on_disk = FALSE
    /\ performCalled = FALSE
    /\ gpos = 0 /\ gblocks = 0 /\ gcalls = 0 /\ gfed = 0 /\ glast = 0
    /\ total_frames = 0
    /\ segment_start_sec = 0 /\ segment_end_sec = 0
    /\ start_sample = 0 /\ num_samples_to_read = 0
    /\ lpath = "none"
    /\ lopens = 0 /\ lreads = 0 /\ lmaxreq = 0 /\ lcalls = 0 /\ lfedmin = 0
    /\ lpos = 0 /\ lreq = 0
    /\ samples_processed = 0
    /\ local_frames = 0

\* a key signature "<tonic> <major|minor>": tonic 0..11 is C, C#, ..., B
Signatures == [tonic : 0..11, mode : {"major", "minor"}]

\* the key signature "N/A" of the sentinel estimate
NA == [tonic |-> -1, mode |-> "N/A"]

\* confidences and strengths, in thousandths, around the thresholds
LocalConfidences == {0, 800, 801, 1000}
GlobalConfidences == {500, 900}
Strengths == {0, 600, 601, 1000}

\* the estimates find_best_key can return; the sentinel has confidence 0
KeyInfos(confidences) ==
    [key_signature : Signatures, confidence : confidences]
        \cup {[key_signature |-> NA, confidence |-> 0]}

CadenceInfos == [detected : BOOLEAN, strength : Strengths]

\* the key a key signature names; an unparsable one gives the default key
get_key_object(key_signature) ==
    IF key_signature \in Signatures
    THEN key_signature
    ELSE [tonic |-> 0, mode |-> "major"]

\* intervals of the diatonic scale of a key's mode
ScaleIntervals(mode) ==
    IF mode = "major" THEN {0, 2, 4, 5, 7, 9, 11} ELSE {0, 2, 3, 5, 7, 8, 10}

\* pitch classes of a key's scale
ScalePcs(k) == {(k.tonic + i) % 12 : i \in ScaleIntervals(k.mode)}

\* mutant of classify_region_type: 0.10 less per borrowed tone
classify_region_type_Tenth(global_key, local_key, local_key_confidence, local_cadence) ==
    LET borrowed == ScalePcs(local_key) \ ScalePcs(global_key)
    IN IF global_key = local_key
       THEN [type |-> "stable", confidence |-> 1900, borrowed |-> {}]
       ELSE IF /\ local_key_confidence > 800
               /\ local_cadence.detected
               /\ local_cadence.strength > 600
            THEN [type |-> "modulation",
                  confidence |-> local_key_confidence + local_cadence.strength,
                  borrowed |-> borrowed]
            ELSE [type |-> "modal_shift",
                  confidence |-> Max(1000, 2000 - 200 * Cardinality(borrowed)),
                  borrowed |-> borrowed]

\* the verdict; its confidence is in units of 1/2000 (0.95 is 1900, the mean
\* of two thousandths is their sum, 1.0 - 0.15 n is 2000 - 300 n)
classify_region_type(global_key, local_key, local_key_confidence, local_cadence) ==
    LET borrowed == ScalePcs(local_key) \ ScalePcs(global_key)
    IN IF global_key = local_key
       THEN [type |-> "stable", confidence |-> 1900, borrowed |-> {}]
       ELSE IF /\ local_key_confidence > 800
               /\ local_cadence.detected
               /\ local_cadence.strength > 600
            THEN [type |-> "modulation",
                  confidence |-> local_key_confidence + local_cadence.strength,
                  borrowed |-> borrowed]
            ELSE [type |-> "modal_shift",
                  confidence |-> Max(1000, 2000 - 300 * Cardinality(borrowed)),
                  borrowed |-> borrowed]

\* global_key_obj = utils.get_key_object(global_key_info["key_signature"])
GlobalKeyObj(g) == get_key_object(g.key_signature)

\* mutant of LocalKeyObj: the key is built from the tonic alone, as major
LocalKeyObjTonicOnly(l) ==
    get_key_object([tonic |-> l.key_signature.tonic, mode |-> "major"])

\* local_key_obj = utils.get_key_object(local_key_info["key_signature"])
LocalKeyObj(l) == get_key_object(l.key_signature)

\* mutant of RegionInfo: the global key's confidence is passed
RegionInfoGlobalConfidence(g, l, cadence) ==
    classify_region_type(GlobalKeyObj(g), LocalKeyObj(l), g.confidence,
                         cadence)

\* mutant of RegionInfo: the global and the local key are passed swapped
RegionInfoSwappedKeys(g, l, cadence) ==
    classify_region_type(LocalKeyObj(l), GlobalKeyObj(g), l.confidence,
                         cadence)

\* region_info = utils.classify_region_type(global_key=global_key_obj,
\*     local_key=local_key_obj, local_key_confidence=local_key_info["confidence"],
\*     local_cadence=local_cadence_info)
RegionInfo(g, l, cadence) ==
    classify_region_type(GlobalKeyObj(g), LocalKeyObj(l), l.confidence,
                         cadence)

\* steps 1 and 2 have returned their estimates and the cadence was detected
InitClassify ==
    /\ PipelineIdle
    /\ AggIdle
    /\ KeyIdle
    /\ HarmIdle
    /\ cpc = "inputs"
    /\ global_key_info \in KeyInfos(GlobalConfidences)
    /\ local_key_info \in KeyInfos(LocalConfidences)
    /\ local_cadence_info \in CadenceInfos
    /\ region_info = <<>>

\* step 3 of _perform_analysis
Classify ==
    /\ cpc = "inputs"
    /\ region_info' = RegionInfo(global_key_info, local_key_info,
                                 local_cadence_info)
    /\ cpc' = "classified"
    /\ UNCHANGED <<pipelineVars, keyVars, harmVars, aggVars, global_key_info, local_key_info,
                   local_cadence_info>>

NextClassify == Classify

SpecClassify == InitClassify /\ [][NextClassify]_vars

\* the keys the classifier compares
ComparedKeysDiffer ==
    get_key_object(global_key_info.key_signature)
        # get_key_object(local_key_info.key_signature)

C5_IdenticalKeysStable ==
    (cpc = "classified"
     /\ global_key_info.key_signature = local_key_info.key_signature) =>
        /\ region_info.type = "stable"
        /\ region_info.confidence = 1900
        /\ region_info.borrowed = {}

\* C5 witness: identical keys with inputs that meet the modulation thresholds
C5_Witness ==
    /\ cpc = "classified"
    /\ global_key_info.key_signature = local_key_info.key_signature
    /\ local_key_info.confidence = 801
    /\ local_cadence_info.detected
    /\ local_cadence_info.strength = 601
    /\ region_info.type = "stable"

\* the number of pitch classes of the local key's scale that the global
\* key's scale lacks
BorrowedCount ==
    Cardinality({p \in 0..11 :
        /\ p \in ScalePcs(get_key_object(local_key_info.key_signature))
        /\ p \notin ScalePcs(get_key_object(global_key_info.key_signature))})

\* C10: a modal_shift verdict reports as borrowed the pitch classes of the
\* local key's scale that the global key's lacks, and for n of them has
\* confidence max(0.5, 1.0 - 0.15 n): 1.0, 0.85, 0.70, 0.55, then 0.5 for
\* every n >= 4.
C10_ModalShiftConfidence ==
    (cpc = "classified" /\ region_info.type = "modal_shift") =>
        LET n == BorrowedCount
        IN /\ Cardinality(region_info.borrowed) = n
           /\ \A p \in region_info.borrowed :
                  p \in ScalePcs(get_key_object(local_key_info.key_signature))
           /\ n = 0 => region_info.confidence = 2000
           /\ n = 1 => region_info.confidence = 1700
           /\ n = 2 => region_info.confidence = 1400
           /\ n = 3 => region_info.confidence = 1100
           /\ n >= 4 => region_info.confidence = 1000
           /\ region_info.confidence >= 1000
           /\ region_info.confidence <= 2000

\* C10 witness: a modal shift with five borrowed tones, at the floor
C10_Witness ==
    /\ cpc = "classified"
    /\ region_info.type = "modal_shift"
    /\ BorrowedCount = 5
    /\ region_info.confidence = 1000

\* ------------------------------------------------------------------ key matcher

\* the input of guess_mode has at most MaxNotes bins that are not zero
MaxNotes == 2

\* the intensities a bin that is not zero takes, in units of the vector
Levels == {1, 2}

\* the unit of a vector's entries: "half" is 0.5 (an averaged chroma),
\* "tiny" is 5e-7 (a signal that is next to silent)
Units == {"half", "tiny"}

\* PITCH_CLASSES, by index: 0 is C, 1 is C#, ..., 11 is B
PITCH_CLASSES == 0..11

\* the scale classes guess_mode tries for every tonic, in its order
SCALE_CLASSES ==
    <<"Major", "Minor", "Dorian", "Phrygian", "Lydian", "Mixolydian",
      "Locrian">>

\* the intervals, in semitones above the tonic, of a scale class
ScaleClassIntervals(scale_class) ==
    CASE scale_class = "Major"      -> {0, 2, 4, 5, 7, 9, 11}
      [] scale_class = "Minor"      -> {0, 2, 3, 5, 7, 8, 10}
      [] scale_class = "Dorian"     -> {0, 2, 3, 5, 7, 9, 10}
      [] scale_class = "Phrygian"   -> {0, 1, 3, 5, 7, 8, 10}
      [] scale_class = "Lydian"     -> {0, 2, 4, 6, 7, 9, 11}
      [] scale_class = "Mixolydian" -> {0, 2, 4, 5, 7, 9, 10}
      [] scale_class = "Locrian"    -> {0, 1, 3, 5, 6, 8, 10}

\* SCALE_WEIGHTS.get(interval, DEFAULT_WEIGHT), in tenths
ScaleWeight(interval) ==
    CASE interval = 0 -> 10
      [] interval = 7 -> 6
      [] interval = 4 -> 4
      [] interval = 3 -> 4
      [] OTHER -> 3

\* pcs_in_scale = {p.pitchClass for p in sc.getPitches(...)}
pcs_in_scale(tonic_pc, scale_class) ==
    {(tonic_pc + i) % 12 : i \in ScaleClassIntervals(scale_class)}

\* mutant of interval_from_tonic: the distance without the wrap at the octave
interval_from_tonic_NoWrap(pc_, tonic_pc) ==
    IF pc_ >= tonic_pc THEN pc_ - tonic_pc ELSE tonic_pc - pc_

\* interval_from_tonic = (pc - tonic_pc + 12) % 12
interval_from_tonic(pc_, tonic_pc) == (pc_ - tonic_pc + 12) % 12

\* scale_vector = np.zeros(12); for pc in pcs_in_scale: scale_vector[pc] = weight
RECURSIVE FillScaleVector(_, _, _)
FillScaleVector(vec, pcs, tonic_pc) ==
    IF pcs = {}
    THEN vec
    ELSE LET p == CHOOSE x \in pcs : TRUE
         IN FillScaleVector(
                [vec EXCEPT ![p] = ScaleWeight(interval_from_tonic(p, tonic_pc))],
                pcs \ {p}, tonic_pc)

\* the weighted template of a candidate
scale_vector(tonic_pc, scale_class) ==
    FillScaleVector([p \in PITCH_CLASSES |-> 0],
                    pcs_in_scale(tonic_pc, scale_class), tonic_pc)

\* the candidates in the order of the two loops: tonic outer, scale inner
NumCandidates == 84

CandidateTonic(c) == c \div 7
CandidateScale(c) == SCALE_CLASSES[(c % 7) + 1]

\* np.dot over the 12 bins
Dot(a, b) ==
    a[0] * b[0] + a[1] * b[1] + a[2] * b[2] + a[3] * b[3] + a[4] * b[4]
    + a[5] * b[5] + a[6] * b[6] + a[7] * b[7] + a[8] * b[8] + a[9] * b[9]
    + a[10] * b[10] + a[11] * b[11]

\* the weighted template of every candidate (f @@ <<>> is f, tabulated)
Templates ==
    [c \in 0..(NumCandidates - 1) |->
        scale_vector(CandidateTonic(c), CandidateScale(c))] @@ <<>>

\* np.linalg.norm(scale_vector), squared, of every candidate
TemplateNormSq ==
    [c \in 0..(NumCandidates - 1) |-> Dot(Templates[c], Templates[c])] @@ <<>>

\* (1e-6 / unit) squared, rounded up to an integer: for entries in units of
\* 5e-7 it is 4; for entries in halves it is 4e-12, which an integer
\* Dot(v, v) is below only at 0
NormThresholdSq(unit) == IF unit = "tiny" THEN 4 ELSE 1

\* mutant of IsDegenerate: a norm equal to the threshold is degenerate too
IsDegenerateInclusive(v, unit) == Dot(v, v) <= NormThresholdSq(unit)

\* norm_val < 1e-6, as norm_val squared < 1e-12
IsDegenerate(v, unit) == Dot(v, v) < NormThresholdSq(unit)

\* the cosine similarity of v and candidate c is
\* Dot(v, T) / (norm(v) * norm(T)); norm(v) is the same for every candidate,
\* so the similarities of one v are kept as the table of Dot(v, T), beside
\* the squared norms of the templates, and compared exactly
Sims(v) ==
    [c \in 0..(NumCandidates - 1) |-> Dot(v, Templates[c])] @@ <<>>

\* sim of candidate a > sim of candidate b, for a non-negative vector
SimGreater(dots, a, b) ==
    dots[a] * dots[a] * TemplateNormSq[b] > dots[b] * dots[b] * TemplateNormSq[a]

\* mutant of ReplacesBest: a candidate with an equal score replaces the best
ReplacesBestOnEqual(dots, c, best) ==
    best = -1 \/ ~SimGreater(dots, best, c)

\* if sim > best_score (the first candidate always does: best_score
\* starts at -1.0, below every similarity of a non-negative vector)
ReplacesBest(dots, c, best) ==
    best = -1 \/ SimGreater(dots, c, best)

\* the two loops over the candidates, from candidate c on
RECURSIVE ScanCandidates(_, _, _)
ScanCandidates(dots, c, best) ==
    IF c = NumCandidates
    THEN best
    ELSE IF ReplacesBest(dots, c, best)
         THEN ScanCandidates(dots, c + 1, c)
         ELSE ScanCandidates(dots, c + 1, best)

\* the result for a near-zero vector: return "N/A", "N/A", {} (scored: the
\* size of match_scores)
NAResult == [tonic |-> -1, mode |-> "N/A", index |-> -1, scored |-> 0]

\* guess_mode: the tonic and the scale class of the best mode name (index:
\* the place of the scale class in SCALE_CLASSES, from 0)
guess_mode(v, unit) ==
    IF IsDegenerate(v, unit)
    THEN NAResult
    ELSE LET best == ScanCandidates(Sims(v), 0, -1)
         IN IF best = -1
            THEN [NAResult EXCEPT !.scored = NumCandidates]
            ELSE [tonic |-> CandidateTonic(best),
                  mode |-> CandidateScale(best),
                  index |-> best % 7, scored |-> NumCandidates]

\* the number of candidates, from c on, whose score equals that of best
RECURSIVE CountEqual(_, _, _)
CountEqual(dots, c, best) ==
    IF c = NumCandidates
    THEN 0
    ELSE (IF SimGreater(dots, c, best) \/ SimGreater(dots, best, c)
          THEN 0 ELSE 1) + CountEqual(dots, c + 1, best)

\* the candidates whose score equals that of guess_mode's result
NumBest(v, result) ==
    IF result.tonic = -1
    THEN 0
    ELSE CountEqual(Sims(v), 0, result.tonic * 7 + result.index)

\* the vector with every pitch class moved up k semitones
Rotate(v, k) == [p \in PITCH_CLASSES |-> v[(p - k + 12) % 12]]

NotesIn(v) == Cardinality({p \in PITCH_CLASSES : v[p] # 0})

InitKey ==
    /\ PipelineIdle
    /\ AggIdle
    /\ ClassifierIdle
    /\ HarmIdle
    /\ kpc = "build"
    /\ chroma_vector = [p \in PITCH_CLASSES |-> 0]
    /\ kshift = 0
    /\ kbest = <<>> /\ krotated = <<>> /\ kties = 0
    /\ kunit \in Units

\* one bin of the input vector is given an intensity
SetBin(p, x) ==
    /\ kpc = "build"
    /\ chroma_vector[p] = 0
    /\ NotesIn(chroma_vector) < MaxNotes
    /\ chroma_vector' = [chroma_vector EXCEPT ![p] = x]
    /\ UNCHANGED <<pipelineVars, classifierVars, harmVars, aggVars, kpc, kshift, kbest, krotated,
                   kties, kunit>>

\* guess_mode is applied to the vector
Estimate ==
    /\ kpc = "build"
    /\ kbest' = guess_mode(chroma_vector, kunit)
    /\ kties' = NumBest(chroma_vector, kbest')
    /\ kpc' = "estimated"
    /\ UNCHANGED <<pipelineVars, classifierVars, harmVars, aggVars, chroma_vector, kshift,
                   krotated, kunit>>

\* guess_mode is applied to the vector rotated by k semitones
EstimateRotated(k) ==
    /\ kpc = "estimated"
    /\ kshift' = k
    /\ krotated' = guess_mode(Rotate(chroma_vector, k), kunit)
    /\ kpc' = "rotated"
    /\ UNCHANGED <<pipelineVars, classifierVars, harmVars, aggVars, chroma_vector, kbest, kties,
                   kunit>>

NextKey ==
    \/ \E p \in PITCH_CLASSES, x \in Levels : SetBin(p, x)
    \/ Estimate
    \/ \E k \in 0..11 : EstimateRotated(k)

SpecKey == InitKey /\ [][NextKey]_vars

\* the rotated vector's result is the first result with its tonic moved up
RotatedAgrees ==
    /\ krotated.tonic = (kbest.tonic + kshift) % 12
    /\ krotated.mode = kbest.mode

\* C9 as stated: for every vector that is not degenerate and every k, the
\* rotated vector's result is the same mode with the tonic k semitones up.
C9_RotationInvariantAlways ==
    (kpc = "rotated" /\ kbest # NAResult) => RotatedAgrees

\* C9 amended: the same, for the vectors whose best score is reached by one
\* candidate only.
C9_RotationInvariantUniqueBest ==
    (kpc = "rotated" /\ kbest # NAResult /\ kties = 1) => RotatedAgrees

\* C9 witness: a vector of two notes or more with one best candidate,
\* rotated by a fifth so that the tonic wraps around
C9_Witness ==
    /\ kpc = "rotated"
    /\ kties = 1
    /\ NotesIn(chroma_vector) >= 2
    /\ kshift = 7
    /\ kbest.tonic + kshift >= 12
    /\ krotated.tonic = kbest.tonic + kshift - 12
    /\ krotated.mode = kbest.mode

\* the names guess_mode can return as the best mode
ModeNames == {SCALE_CLASSES[i] : i \in 1..Len(SCALE_CLASSES)}

\* C11: a vector whose norm is below 1e-6 (the all-zero vector is one) gets
\* the result "N/A" with no candidate scored; a vector whose norm is 1e-6 or
\* more gets a tonic among the twelve and one of the seven mode names, never
\* "N/A", every candidate scored.  guess_mode returns in both cases.
C11_DegenerateIffBelowNorm ==
    kpc \in {"estimated", "rotated"} =>
        LET normSq == Dot(chroma_vector, chroma_vector)
            below == IF kunit = "tiny" THEN normSq < 4 ELSE normSq = 0
        IN /\ below =>
                /\ kbest.mode = "N/A" /\ kbest.tonic = -1
                /\ kbest.scored = 0
           /\ ~below =>
                /\ kbest.mode \in ModeNames
                /\ kbest.tonic \in PITCH_CLASSES
                /\ kbest.scored = NumCandidates

\* C11 witness: a vector that is not all zero, with a norm below 1e-6, got
\* "N/A" and no candidate was scored
C11_Witness ==
    /\ kpc = "estimated"
    /\ kunit = "tiny"
    /\ Dot(chroma_vector, chroma_vector) \in 1..3
    /\ kbest.mode = "N/A"
    /\ kbest.scored = 0

\* ------------------------------------------------------------------ harmonic suppression

\* the input of suppress_harmonics has at most MaxHarmNotes bins that are
\* not zero
MaxHarmNotes == 3

\* the intensities of a bin that is not zero, and the thresholds, in one
\* unit; the intensities are even so that a halved one is an integer
HarmLevels == {2, 4}
HarmThresholds == {1, 2, 4}

\* mutant of HarmonicSource: the value is read from the vector being written
HarmonicSourceInPlace(vec, result, p) == result[p]

\* the value of pitch class p that is compared with the threshold: the
\* input's
HarmonicSource(vec, result, p) == vec[p]

\* for each pitch class p from 0 to 11: if its value exceeds the threshold,
\* the value at its perfect fifth (p + 7) % 12 is multiplied by 0.5
RECURSIVE SuppressFrom(_, _, _, _)
SuppressFrom(vec, result, p, threshold) ==
    IF p = 12
    THEN result
    ELSE SuppressFrom(vec,
             IF HarmonicSource(vec, result, p) > threshold
             THEN [result EXCEPT ![(p + 7) % 12] = @ \div 2]
             ELSE result,
             p + 1, threshold)

\* suppress_harmonics(vec, threshold): a new vector, starting as a copy
suppress_harmonics(vec, threshold) == SuppressFrom(vec, vec, 0, threshold)

InitHarmonics ==
    /\ PipelineIdle
    /\ AggIdle
    /\ ClassifierIdle
    /\ KeyIdle
    /\ hpc = "build"
    /\ hvec = [p \in PITCH_CLASSES |-> 0]
    /\ hthreshold \in HarmThresholds
    /\ hresult = <<>>

\* one bin of the input vector is given an intensity
SetHarmBin(p, x) ==
    /\ hpc = "build"
    /\ hvec[p] = 0
    /\ NotesIn(hvec) < MaxHarmNotes
    /\ hvec' = [hvec EXCEPT ![p] = x]
    /\ UNCHANGED <<pipelineVars, classifierVars, keyVars, aggVars, hpc, hthreshold,
                   hresult>>

\* suppress_harmonics is applied to the vector
Suppress ==
    /\ hpc = "build"
    /\ hresult' = suppress_harmonics(hvec, hthreshold)
    /\ hpc' = "suppressed"
    /\ UNCHANGED <<pipelineVars, classifierVars, keyVars, aggVars, hvec, hthreshold>>

NextHarmonics ==
    \/ \E p \in PITCH_CLASSES, x \in HarmLevels : SetHarmBin(p, x)
    \/ Suppress

SpecHarmonics == InitHarmonics /\ [][NextHarmonics]_vars

RequestFailed == err \notin {"none", "EndBeforeStart"}

\* blocks of chunk_size samples that end at file position pos
BlocksUpTo(pos) == (pos + chunk_size - 1) \div chunk_size

\* C12: a request that fails with one of the pipeline's ValueErrors (empty
\* segment, too short, nothing processed) ends with status 400 and the
\* error's message as detail; one that fails with any other exception
\* (upload, decoder at open or at seek, the extractor) ends with status 500
\* as an internal error; a failed request returns no result, and no stage
\* ran twice: the file was opened by the local pass at most once and every
\* block of the global pass was read once.
C12_ErrorMappingNoRetry ==
    /\ pc = "except" => RequestFailed /\ status = 0 /\ body = <<"none">>
    /\ (RequestFailed /\ pc \in {"finally", "done"}) =>
         /\ err \in {"EmptySegment", "TooShortGlobal", "TooShortLocal",
                     "CouldNotProcess"}
              => status = 400 /\ body = <<"detail", err>>
         /\ err \in {"UploadError", "OpenError", "DecoderError",
                     "NumericError"}
              => status = 500 /\ body = <<"internal", err>>
         /\ status \in {400, 500}
    /\ RequestFailed =>
         /\ status # 200 /\ body # <<"result">>
         /\ pc \in {"except", "finally", "done"}
         /\ lopens <= 1
         /\ gpos <= nsamples /\ gblocks = BlocksUpTo(gpos)
         /\ gcalls <= gblocks
    /\ status = 200 => err = "none" /\ body = <<"result">>

\* C12 witness: a direct read of too few samples was answered with 400 after
\* one global pass and one local read
C12_Witness ==
    /\ pc = "done"
    /\ err = "TooShortLocal"
    /\ status = 400
    /\ body = <<"detail", "TooShortLocal">>
    /\ gblocks > 0 /\ lopens = 1 /\ lreads = 1

\* C13: once a request that passed the end < start check has been answered
\* (a result, a validation error, an internal error, a failure while the
\* upload was read or written to the temporary file), the temporary file
\* created for it is no longer on disk.
C13_TempFileAlwaysRemoved ==
    (pc = "done" /\ ~EndBeforeStart(endGiven, end, start)) =>
        ~temp_file_on_disk

\* ------------------------------------------------------------------ local streaming loop

\* the request handler runs to its end: a step that can be taken is taken
SpecFair == Spec /\ WF_vars(Next)

\* end_sample of the resolved segment
EndSample == start_sample + num_samples_to_read

\* the streaming path has opened the file and positioned it
InLocalStream ==
    lpath = "stream" /\ pc # "lstreamOpen" /\ err # "DecoderError"

\* C15, the states of the streaming loop: the handle stands at start_sample
\* plus the samples consumed, so the first read is at start_sample and none
\* reaches end_sample; 0 <= samples_processed <= num_samples_to_read; the
\* last request was for at most a chunk and at most what remained; and the
\* loop is left with every sample consumed or after an empty read.
StreamLoopInvariant ==
    InLocalStream =>
        /\ lpos = start_sample + samples_processed
        /\ lreads = 0 => lpos = start_sample
        /\ 0 <= samples_processed
        /\ samples_processed <= num_samples_to_read
        /\ lpos <= EndSample
        /\ lreq <= chunk_size /\ lreq <= num_samples_to_read
        /\ lreads <= BlocksUpTo(num_samples_to_read)
        /\ pc \notin {"lstream", "lstreamBreak"} =>
               \/ samples_processed = num_samples_to_read
               \/ lreads > 0 /\ lpos >= nsamples
        /\ pc = "lstreamBreak" => lreads > 0 /\ lpos >= nsamples

\* C15, one iteration: it asks for min(chunk_size, remaining) samples
StreamLoopRequest ==
    (pc = "lstream" /\ lreads' = lreads + 1) =>
        lreq' = Min(chunk_size, num_samples_to_read - samples_processed)

MaxAggChunks == 1

AggSampleRates == {8000}

AggFileLengths(rate) ==
    {q * (rate * CHUNK_SECONDS) + r : q \in 0..MaxAggChunks, r \in TailLengths}

\* what a chunk sounds like: silence, or one pitch class held at a level with
\* its major third on every other frame
ChunkPatterns ==
    {[loud |-> 0, level |-> 0]} \cup [loud : {0, 7}, level : {1, 2}]

\* chunk_chroma[p, t] for a chunk that sounds like m
ChunkChroma(m, p, t) ==
    IF m.level = 0 THEN 0
    ELSE IF p = m.loud THEN m.level
    ELSE IF p = (m.loud + 4) % 12 /\ t % 2 = 0 THEN 1
    ELSE 0

\* np.sum(chunk_chroma, axis=1)[p], over the frames from t on
RECURSIVE RowSumFrom(_, _, _, _)
RowSumFrom(m, p, t, frames) ==
    IF t >= frames
    THEN 0
    ELSE ChunkChroma(m, p, t) + RowSumFrom(m, p, t + 1, frames)

\* np.sum(chunk_chroma, axis=1)
RowSums(m, frames) == [p \in PITCH_CLASSES |-> RowSumFrom(m, p, 0, frames)]

\* mutant of AccumulateSum: the chunk's sum replaces the running sum
AccumulateSumOverwrite(running, chunk_sum) == chunk_sum

\* weighted_chroma_sum += np.sum(chunk_chroma, axis=1)
AccumulateSum(running, chunk_sum) ==
    [p \in PITCH_CLASSES |-> running[p] + chunk_sum[p]]

\* global_avg_chroma = weighted_chroma_sum / total_frames, each bin kept as
\* the fraction <<numerator, denominator>>
AverageChroma(running, frames) ==
    [p \in PITCH_CLASSES |-> <<running[p], frames>>]

\* _run_global_analysis is entered for a file that was saved and opened
InitAggregate ==
    /\ ClassifierIdle
    /\ KeyIdle
    /\ HarmIdle
    /\ pc = "global"
    /\ sr \in AggSampleRates
    /\ nsamples \in AggFileLengths(sr)
    /\ start = 0 /\ end = 0 /\ endGiven = FALSE
    /\ fault = "none"
    /\ status = 0 /\ err = "none" /\ body = <<"none">>
    /\ temp_audio_filepath = "set" /\ temp_file_on_disk = TRUE
    /\ performCalled = TRUE
    /\ gpos = 0 /\ gblocks = 0 /\ gcalls = 0 /\ gfed = 0 /\ glast = 0
    /\ total_frames = 0
    /\ segment_start_sec = 0 /\ segment_end_sec = 0
    /\ start_sample = 0 /\ num_samples_to_read = 0
    /\ lpath = "none"
    /\ lopens = 0 /\ lreads = 0 /\ lmaxreq = 0 /\ lcalls = 0 /\ lfedmin = 0
    /\ lpos = 0 /\ lreq = 0
    /\ samples_processed = 0
    /\ local_frames = 0
    /\ weighted_chroma_sum = [p \in PITCH_CLASSES |-> 0]
    /\ chunk_chromas = <<>>
    /\ global_avg_chroma = <<>>

\* one iteration of the loop for a chunk that sounds like m: the extractor
\* returns a matrix of total_frames' - total_frames frames, its row sums are
\* added to the running sum, and the matrix is dropped
AggregateChunk(m) ==
    /\ GlobalChunkStep
    /\ LET frames == total_frames' - total_frames
       IN IF gcalls' > gcalls
          THEN /\ weighted_chroma_sum' =
                     AccumulateSum(weighted_chroma_sum, RowSums(m, frames))
               /\ chunk_chromas' =
                     Append(chunk_chromas, [sounds |-> m, frames |-> frames])
          ELSE UNCHANGED <<weighted_chroma_sum, chunk_chromas>>
    /\ UNCHANGED <<classifierVars, keyVars, harmVars, global_avg_chroma>>

\* the end of the loop: the too-short error, or the average
AggregateFinish ==
    /\ GlobalFinishStep
    /\ global_avg_chroma' =
           IF total_frames = 0
           THEN global_avg_chroma
           ELSE AverageChroma(weighted_chroma_sum, total_frames)
    /\ UNCHANGED <<classifierVars, keyVars, harmVars, weighted_chroma_sum,
                   chunk_chromas>>

NextAggregate ==
    \/ \E m \in ChunkPatterns : AggregateChunk(m)
    \/ AggregateFinish

SpecAggregate == InitAggregate /\ [][NextAggregate]_vars

\* the number of columns of the concatenation of the matrices from the i-th
\* on
RECURSIVE ConcatLen(_, _)
ConcatLen(chromas, i) ==
    IF i > Len(chromas)
    THEN 0
    ELSE chromas[i].frames + ConcatLen(chromas, i + 1)

\* np.concatenate(matrices, axis=1)[p, k]: column k of the concatenation of
\* the matrices from the i-th on
RECURSIVE ConcatAt(_, _, _, _)
ConcatAt(chromas, p, i, k) ==
    IF k < chromas[i].frames
    THEN ChunkChroma(chromas[i].sounds, p, k)
    ELSE ConcatAt(chromas, p, i + 1, k - chromas[i].frames)

\* the sum of row p of the concatenation over the columns lo .. hi - 1
RECURSIVE ConcatRowSum(_, _, _, _)
ConcatRowSum(chromas, p, lo, hi) ==
    IF hi <= lo
    THEN 0
    ELSE IF hi = lo + 1
         THEN ConcatAt(chromas, p, 1, lo)
         ELSE LET mid == (lo + hi) \div 2
              IN ConcatRowSum(chromas, p, lo, mid)
                     + ConcatRowSum(chromas, p, mid, hi)

\* C16: after any prefix of the file's chunks, weighted_chroma_sum is, bin by
\* bin, the sum over all frames of all the matrices returned so far and
\* total_frames the sum of their frame counts; on success the vector
\* returned is weighted_chroma_sum / total_frames, which is the column
\* average of the concatenation of all the matrices.
C16_RunningSumIsConcatenationMean ==
    LET n == ConcatLen(chunk_chromas, 1)
    IN /\ total_frames = n
       /\ Len(chunk_chromas) = gcalls
       /\ \A p \in PITCH_CLASSES :
              weighted_chroma_sum[p] = ConcatRowSum(chunk_chromas, p, 0, n)
       /\ pc = "local" =>
              /\ n > 0
              /\ \A p \in PITCH_CLASSES :
                    /\ global_avg_chroma[p][2] = n
                    /\ global_avg_chroma[p][1] * n =
                           ConcatRowSum(chunk_chromas, p, 0, n)
                               * global_avg_chroma[p][2]
       /\ pc = "except" => n = 0 /\ global_avg_chroma = <<>>

\* C16 witness: two chunks of different frame counts that sound differently
\* were averaged
C16_Witness ==
    /\ pc = "local"
    /\ Len(chunk_chromas) = 2
    /\ chunk_chromas[1].frames # chunk_chromas[2].frames
    /\ chunk_chromas[1].sounds.level = 2
    /\ chunk_chromas[2].sounds.level = 1
    /\ chunk_chromas[1].sounds.loud # chunk_chromas[2].sounds.loud
    /\ global_avg_chroma[0][1] > 0 /\ global_avg_chroma[7][1] > 0

\* ------------------------------------------------------------------ key selection

\* the place of guess_mode's result in the order of the two loops
BestCandidate(result) == result.tonic * 7 + result.index

\* C17: for a vector that is not degenerate, no candidate scores higher than
\* the one returned, and every candidate before it in the order of the loops
\* (tonic C, C#, ..., B outside, the seven scale classes inside) scores
\* strictly lower: among the candidates with the highest score the first is
\* returned.
C17_FirstOfTheBest ==
    (kpc = "estimated" /\ kbest.tonic # -1) =>
        LET dots == Sims(chroma_vector)
            best == BestCandidate(kbest)
        IN /\ best \in 0..(NumCandidates - 1)
           /\ kbest.tonic = CandidateTonic(best)
           /\ kbest.mode = CandidateScale(best)
           /\ \A c \in 0..(NumCandidates - 1) :
                  /\ ~SimGreater(dots, c, best)
                  /\ c < best => SimGreater(dots, best, c)

\* C17 witness: several candidates share the highest score, one of them
\* with another tonic later in the order, and the first was returned
C17_Witness ==
    /\ kpc = "estimated"
    /\ kties >= 2
    /\ NotesIn(chroma_vector) = 2
    /\ LET dots == Sims(chroma_vector)
           best == BestCandidate(kbest)
       IN \E c \in (best + 1)..(NumCandidates - 1) :
              /\ CandidateTonic(c) # kbest.tonic
              /\ ~SimGreater(dots, best, c)

====
